---- MODULE Spec2Model ----
(***************************************************************************)
(* The research agent of backend/src/agent/graph.py: a graph of four nodes *)
(* (generate_query, web_research, reflection, finalize_answer) with two    *)
(* routers (continue_to_web_research, evaluate_research), run superstep by *)
(* superstep.  A node returns a delta; the deltas of a superstep are       *)
(* merged into the run state when every task of the superstep has          *)
(* returned, and the routers are then evaluated on the merged state.       *)
(***************************************************************************)
EXTENDS Integers, Sequences, FiniteSets, TLC

\* ---------------------------------------------------------------- bounds

\* Longest list of queries a model call returns.
MaxQueries == 2

\* Number of results of a search that finds something (the tool is built with
\* max_results=5); a search may also find nothing.
MaxResults == 2

\* Largest value of max_research_loops, configured or overridden.
MaxLoops == 2

\* ---------------------------------------------------------------- values

\* An optional value of the state dict: None (also an absent key) or Some(v).
None == <<>>

Some(v) == <<v>>

\* dict.get(key, default)
Get(v, default) == IF v = None THEN default ELSE v[1]

\* The text of the i-th query a model call may produce.
QueryText(i) == <<"query", i>>

\* The query lists a structured model call may return: the empty list, lists
\* of distinct queries up to MaxQueries long, and a list with a repeated query.
QueryLists ==
    {[i \in 1..n |-> QueryText(i)] : n \in 0..MaxQueries}
        \cup {[i \in 1..2 |-> QueryText(1)]}

\* The number of results a search call may return.
ResultCounts == {0, MaxResults}

\* The result of one search call: n ranked results for the query; a result
\* (title, url, content) is identified by the query and its rank.
Search(search_query, n) ==
    [i \in 1..n |-> [title |-> <<search_query, i>>, url |-> <<search_query, i>>]]

\* ---------------------------------------------------------------- state

VARIABLES
    pc,                   \* the node about to run, "END" or "error"
    messages,             \* OverallState["messages"]
    query_list,           \* OverallState["query_list"]
    web_research_result,  \* OverallState["web_research_result"]
    sources_gathered,     \* OverallState["sources_gathered"]
    research_loop_count,  \* OverallState["research_loop_count"], None if absent
    is_sufficient,        \* OverallState["is_sufficient"], None if absent
    follow_up_queries,    \* OverallState["follow_up_queries"]
    max_research_loops,   \* OverallState["max_research_loops"], None if absent
    cfg_max_research_loops, \* Configuration.max_research_loops
    tasks,                \* the web_research tasks of the current wave
    order,                \* indices of the wave's tasks, in completion order
    wave,                 \* history: waves dispatched, and the accumulators' lengths at dispatch
    verdicts,             \* history: is_sufficient of each completed reflection, in order
    model_cache,          \* app.py: model_cache["data"], model_cache["last_updated"]
    now,                  \* app.py: the value datetime.now() returns
    calls                 \* app.py: the calls of fetch_openrouter_models in progress

\* The run state of the research graph.
graphVars == <<pc, messages, query_list, web_research_result, sources_gathered,
               research_loop_count, is_sufficient, follow_up_queries,
               max_research_loops, cfg_max_research_loops, tasks, order, wave,
               verdicts>>

\* The state of the model-catalog endpoint.
cacheVars == <<model_cache, now, calls>>

vars == <<graphVars, cacheVars>>

\* ---------------------------------------------------------------- merge policy

\* A merge that replaces the stored value by the last write.
ReduceReplace(old, delta) == delta

\* Fields whose concurrent writes are appended to the stored value.
ReduceAppend(old, delta) == old \o delta

\* Fields whose write replaces the stored value.
ReduceOverwrite(old, delta) == delta

\* ---------------------------------------------------------------- nodes

\* generate_query: the delta is the list the model returned.
generate_query(result_query) == [query_list |-> result_query]

\* Send("web_research", {"search_query": q})
Send(node, arg) == [node |-> node, arg |-> arg]

\* A fan-out that leaves out the first query of the list.
continue_to_web_research_rest(ql) ==
    [i \in 1..(Len(ql) - 1) |-> Send("web_research", [search_query |-> ql[i + 1]])]

\* The list without the later occurrences of a repeated element.
RECURSIVE Distinct(_)
Distinct(ql) ==
    IF ql = <<>> THEN <<>>
    ELSE LET front == Distinct(SubSeq(ql, 1, Len(ql) - 1))
             last == ql[Len(ql)]
         IN IF \E j \in 1..Len(front) : front[j] = last THEN front
            ELSE Append(front, last)

\* A fan-out that sends a repeated query only once.
continue_to_web_research_distinct(ql) ==
    [i \in 1..Len(Distinct(ql)) |->
        Send("web_research", [search_query |-> Distinct(ql)[i]])]

\* continue_to_web_research: one Send per element of query_list, in order.
continue_to_web_research(ql) ==
    [i \in 1..Len(ql) |-> Send("web_research", [search_query |-> ql[i]])]

\* The loop of web_research over one search's results: result i (0-based) is
\* written as "Source [i+1]", so each block is numbered from 1.
FormattedResults(search_results) ==
    [i \in 1..Len(search_results) |-> [index |-> i, source |-> search_results[i]]]

\* A web_research that returns one web_research_result entry per search result.
web_research_per_result(state, search_results) ==
    [web_research_result |->
        [i \in 1..Len(search_results) |-> FormattedResults(<<search_results[i]>>)],
     sources_gathered |-> search_results]

\* A web_research that wraps the result list as one entry of sources_gathered.
web_research_wrapped(state, search_results) ==
    [web_research_result |-> <<FormattedResults(search_results)>>,
     sources_gathered |-> <<search_results>>]

\* web_research: the delta of one branch, from its own query's results.
web_research(state, search_results) ==
    [web_research_result |-> <<FormattedResults(search_results)>>,
     sources_gathered |-> search_results]

\* reflection without the increment.
reflection_no_increment(loop_count, result) ==
    [is_sufficient |-> result.is_sufficient,
     follow_up_queries |-> result.follow_up_queries,
     research_loop_count |-> Get(loop_count, 0)]

\* reflection: increments the loop count and reports the model's verdict.
reflection(loop_count, result) ==
    [is_sufficient |-> result.is_sufficient,
     follow_up_queries |-> result.follow_up_queries,
     research_loop_count |-> Get(loop_count, 0) + 1]

\* A ceiling that ignores the state override.
MaxResearchLoopsConfigured(override, configured) == configured

\* The ceiling evaluate_research uses: the state override unless it is None.
MaxResearchLoops(override, configured) ==
    IF override # None THEN override[1] ELSE configured

\* What a router returns: the name of the next node, or a list of Sends.
Route(node, sends) == [node |-> node, sends |-> sends]

\* evaluate_research with a strict comparison against the ceiling.
evaluate_research_strict(sufficient, loop_count, follow_ups, max_loops) ==
    IF sufficient \/ loop_count > max_loops
    THEN Route("finalize_answer", <<>>)
    ELSE Route("web_research",
               [i \in 1..Len(follow_ups) |->
                    Send("web_research", [search_query |-> follow_ups[i]])])

\* evaluate_research that follows up with the first follow-up query only.
evaluate_research_first_only(sufficient, loop_count, follow_ups, max_loops) ==
    IF sufficient \/ loop_count >= max_loops
    THEN Route("finalize_answer", <<>>)
    ELSE Route("web_research",
               [i \in 1..(IF follow_ups = <<>> THEN 0 ELSE 1) |->
                    Send("web_research", [search_query |-> follow_ups[i]])])

\* evaluate_research: finalize when sufficient or at the ceiling, else fan out.
evaluate_research(sufficient, loop_count, follow_ups, max_loops) ==
    IF sufficient \/ loop_count >= max_loops
    THEN Route("finalize_answer", <<>>)
    ELSE Route("web_research",
               [i \in 1..Len(follow_ups) |->
                    Send("web_research", [search_query |-> follow_ups[i]])])

\* The numbered list finalize_answer builds from sources_gathered.
source_list(sources) ==
    [i \in 1..Len(sources) |-> [index |-> i, source |-> sources[i]]]

\* The replacement fields that occur in the answer_instructions template.
answer_instructions == {"current_date", "research_topic", "summaries"}

\* str.format: the template's fields are filled from the keyword arguments;
\* keyword arguments the template does not name are ignored.
Format(template, kwargs) == [f \in template |-> kwargs[f]]

\* The prompt finalize_answer sends to the answer model.
formatted_prompt(msgs, results, sources) ==
    Format(answer_instructions,
           [current_date |-> "today",
            research_topic |-> msgs[1].content,
            summaries |-> results,
            source_list |-> source_list(sources)])

\* finalize_answer: the answer message and the sources it read.
finalize_answer(content, sources) ==
    [messages |-> <<[type |-> "ai", content |-> content]>>,
     sources_gathered |-> sources]

\* ---------------------------------------------------------------- scheduler

\* A task of a wave that has not returned holds no writes.
NoWrites == [web_research_result |-> <<>>, sources_gathered |-> <<>>]

NewTask(send) ==
    [arg |-> send.arg, done |-> FALSE, failed |-> FALSE, writes |-> NoWrites]

\* A join that lets reflection start when some branch has returned.
JoinAny(ts) == \E i \in 1..Len(ts) : ts[i].done

\* The edge web_research -> reflection: reflection is triggered by the
\* superstep in which web_research ran, which ends when all its tasks returned.
JoinReady(ts) == \A i \in 1..Len(ts) : ts[i].done

\* The writes of the tasks ord names, concatenated in that order.
RECURSIVE Concat(_, _, _)
Concat(ts, ord, field) ==
    IF ord = <<>> THEN <<>>
    ELSE ts[Head(ord)].writes[field] \o Concat(ts, Tail(ord), field)

\* The writes of a wave to one field: each task's writes are kept with the
\* task and handed to the reducer in task order at the end of the superstep,
\* whatever the order ord in which the branches returned.
Writes(ts, ord, field) == Concat(ts, [i \in 1..Len(ts) |-> i], field)

\* The step after a router returned: the Sends become the tasks of the next
\* superstep; with no Send and no named node there is nothing left to run.
Dispatch(route) ==
    /\ tasks' = [i \in 1..Len(route.sends) |-> NewTask(route.sends[i])]
    /\ order' = <<>>
    /\ pc' = IF route.node = "finalize_answer" THEN "finalize_answer"
             ELSE IF Len(route.sends) = 0 THEN "END"
             ELSE "web_research"
    /\ wave' = IF route.node = "web_research" /\ Len(route.sends) > 0
               THEN [n |-> wave.n + 1,
                     results |-> Len(web_research_result),
                     sources |-> Len(sources_gathered)]
               ELSE wave

\* ---------------------------------------------------------------- model catalog

\* model_cache["cache_duration"] = timedelta(hours=1), in clock ticks of 30 minutes.
CacheDuration == 2

\* Last value of the clock.
MaxTime == 4

\* Number of requests to /api/models that may be in progress together.
MaxCalls == 2

\* The upstream responses: the "data" list of the JSON body; an entry may lack
\* its id or its name.
UpstreamResponses ==
    {<<>>,
     <<[id |-> "a/one", name |-> "One"], [id |-> "a/two", name |-> ""]>>,
     <<[id |-> "", name |-> "Three"], [id |-> "b/four", name |-> "Four"]>>}

\* The loop of fetch_openrouter_models over data["data"]: entries with an id
\* and a name become ModelInfo, the others are dropped.
ProcessModels(data) ==
    SelectSeq(data, LAMBDA model_data : model_data.id # "" /\ model_data.name # "")

\* The fallback list of the except branch.
DefaultModels ==
    <<[id |-> "deepseek/deepseek-r1-0528:free", name |-> "DeepSeek R1 (Free)"],
      [id |-> "openai/gpt-4o-mini", name |-> "GPT-4o Mini"],
      [id |-> "anthropic/claude-3.5-sonnet", name |-> "Claude 3.5 Sonnet"]>>

\* The test at the top of fetch_openrouter_models.
CacheValid(cache, t) ==
    /\ cache.data # None
    /\ cache.last_updated # None
    /\ t - cache.last_updated[1] < CacheDuration

\* An except branch that falls back to the default list whatever is cached.
FallbackDefaultOnly(cache) == DefaultModels

\* The except branch: the cached list if there is one, else the default list.
Fallback(cache) ==
    IF cache.data # None THEN cache.data[1] ELSE DefaultModels

\* A cache update that stores the list and leaves last_updated as it was.
UpdateCacheDataOnly(cache, models, t) == [cache EXCEPT !.data = Some(models)]

\* "Update cache": data and last_updated are assigned with no await between.
UpdateCache(cache, models, t) ==
    [data |-> Some(models), last_updated |-> Some(t)]

\* A call that has not started.
IdleCall == [pc |-> "idle", outcome |-> "none", result |-> <<>>]

\* A call that starts: the cached list is returned when the cache is valid,
\* else the call awaits the upstream request.
FetchStart(c) ==
    /\ calls[c].pc = "idle"
    /\ IF CacheValid(model_cache, now)
       THEN calls' = [calls EXCEPT ![c] = [pc |-> "returned", outcome |-> "cached",
                                           result |-> model_cache.data[1]]]
       ELSE calls' = [calls EXCEPT ![c] = [pc |-> "awaiting", outcome |-> "none",
                                           result |-> <<>>]]
    /\ UNCHANGED <<model_cache, now>>
    /\ UNCHANGED graphVars

\* The upstream request of call c is answered: the list is processed, cached
\* and returned.
FetchSuccess(c, data) ==
    /\ calls[c].pc = "awaiting"
    /\ LET models == ProcessModels(data)
       IN /\ model_cache' = UpdateCache(model_cache, models, now)
          /\ calls' = [calls EXCEPT ![c] = [pc |-> "returned", outcome |-> "fetched",
                                            result |-> models]]
    /\ UNCHANGED now
    /\ UNCHANGED graphVars

\* The upstream request of call c, or the processing of its answer, raises.
FetchFail(c) ==
    /\ calls[c].pc = "awaiting"
    /\ calls' = [calls EXCEPT ![c] = [pc |-> "returned", outcome |-> "fallback",
                                      result |-> Fallback(model_cache)]]
    /\ UNCHANGED <<model_cache, now>>
    /\ UNCHANGED graphVars

\* get_available_models hands the list to the client; the request is over.
GetAvailableModels(c) ==
    /\ calls[c].pc = "returned"
    /\ calls' = [calls EXCEPT ![c] = IdleCall]
    /\ UNCHANGED <<model_cache, now>>
    /\ UNCHANGED graphVars

\* Time passes.
Tick ==
    /\ now < MaxTime
    /\ now' = now + 1
    /\ UNCHANGED <<model_cache, calls>>
    /\ UNCHANGED graphVars

\* The model catalog at start-up.
CacheInit ==
    /\ model_cache = [data |-> None, last_updated |-> None]
    /\ now = 0
    /\ calls = [c \in 1..MaxCalls |-> IdleCall]

\* ---------------------------------------------------------------- the run

\* The run state at the start of a run with the given ceilings.
GraphInit(overrides, configured) ==
    /\ pc = "generate_query"
    /\ messages = <<[type |-> "human", content |-> "question"]>>
    /\ query_list = <<>>
    /\ web_research_result = <<>>
    /\ sources_gathered = <<>>
    /\ research_loop_count = None
    /\ is_sufficient = None
    /\ follow_up_queries = <<>>
    /\ max_research_loops \in overrides
    /\ cfg_max_research_loops \in configured
    /\ tasks = <<>>
    /\ order = <<>>
    /\ wave = [n |-> 0, results |-> 0, sources |-> 0]
    /\ verdicts = <<>>

Init ==
    /\ GraphInit({None} \cup {Some(n) : n \in 0..MaxLoops}, {1, MaxLoops})
    /\ CacheInit

\* generate_query returns, its delta is merged, continue_to_web_research routes.
GenerateQuery(result_query) ==
    /\ pc = "generate_query"
    /\ LET delta == generate_query(result_query)
           merged == ReduceOverwrite(query_list, delta.query_list)
       IN /\ query_list' = merged
          /\ Dispatch(Route("web_research", continue_to_web_research(merged)))
    /\ UNCHANGED <<messages, web_research_result, sources_gathered,
                   research_loop_count, is_sufficient, follow_up_queries,
                   max_research_loops, cfg_max_research_loops, verdicts>>
    /\ UNCHANGED cacheVars

\* Branch i of the wave returns with n search results.  When it is the last
\* one, the wave's writes are merged and reflection is next.
WebResearch(i, n) ==
    /\ pc = "web_research"
    /\ i \in 1..Len(tasks)
    /\ ~tasks[i].done
    /\ LET delta == web_research(tasks[i].arg, Search(tasks[i].arg.search_query, n))
           ts == [tasks EXCEPT ![i] = [@ EXCEPT !.done = TRUE, !.writes = delta]]
           ord == Append(order, i)
       IN /\ tasks' = ts
          /\ order' = ord
          /\ IF JoinReady(ts)
             THEN /\ web_research_result' =
                        ReduceAppend(web_research_result,
                                     Writes(ts, ord, "web_research_result"))
                  /\ sources_gathered' =
                        ReduceAppend(sources_gathered,
                                     Writes(ts, ord, "sources_gathered"))
                  /\ pc' = "reflection"
             ELSE UNCHANGED <<web_research_result, sources_gathered, pc>>
    /\ UNCHANGED <<messages, query_list, research_loop_count, is_sufficient,
                   follow_up_queries, max_research_loops,
                   cfg_max_research_loops, wave, verdicts>>
    /\ UNCHANGED cacheVars

\* reflection returns, its delta is merged, evaluate_research routes.
Reflection(result) ==
    /\ pc = "reflection"
    /\ LET delta == reflection(research_loop_count, result)
           sufficient == ReduceOverwrite(is_sufficient, Some(delta.is_sufficient))
           follow_ups == ReduceOverwrite(follow_up_queries, delta.follow_up_queries)
           loop_count == ReduceOverwrite(research_loop_count,
                                         Some(delta.research_loop_count))
       IN /\ is_sufficient' = sufficient
          /\ follow_up_queries' = follow_ups
          /\ research_loop_count' = loop_count
          /\ Dispatch(evaluate_research(
                 sufficient[1], loop_count[1], follow_ups,
                 MaxResearchLoops(max_research_loops, cfg_max_research_loops)))
    /\ verdicts' = Append(verdicts, result.is_sufficient)
    /\ UNCHANGED <<messages, query_list, web_research_result, sources_gathered,
                   max_research_loops, cfg_max_research_loops>>
    /\ UNCHANGED cacheVars

\* finalize_answer returns, its delta is merged, the run ends.
FinalizeAnswer(content) ==
    /\ pc = "finalize_answer"
    /\ LET delta == finalize_answer(content, sources_gathered)
       IN /\ messages' = ReduceAppend(messages, delta.messages)
          /\ sources_gathered' = ReduceAppend(sources_gathered, delta.sources_gathered)
    /\ pc' = "END"
    /\ UNCHANGED <<query_list, web_research_result, research_loop_count,
                   is_sufficient, follow_up_queries, max_research_loops,
                   cfg_max_research_loops, tasks, order, wave, verdicts>>
    /\ UNCHANGED cacheVars

\* A failed web_research branch that is taken to have returned nothing: the
\* wave goes on with the other branches.
ProviderErrorLenient ==
    /\ pc = "web_research"
    /\ \E i \in 1..Len(tasks) :
          /\ ~tasks[i].done
          /\ LET ts == [tasks EXCEPT ![i] = [@ EXCEPT !.done = TRUE, !.failed = TRUE]]
             IN /\ tasks' = ts
                /\ order' = Append(order, i)
                /\ IF JoinReady(ts)
                   THEN /\ web_research_result' =
                              ReduceAppend(web_research_result,
                                           Writes(ts, order', "web_research_result"))
                        /\ sources_gathered' =
                              ReduceAppend(sources_gathered,
                                           Writes(ts, order', "sources_gathered"))
                        /\ pc' = "reflection"
                   ELSE UNCHANGED <<web_research_result, sources_gathered, pc>>
    /\ UNCHANGED <<messages, query_list, research_loop_count, is_sufficient,
                   follow_up_queries, max_research_loops,
                   cfg_max_research_loops, wave, verdicts>>
    /\ UNCHANGED cacheVars

\* A failure that keeps what the failing node had already assigned to its
\* state argument: reflection's incremented research_loop_count.
ProviderErrorKeepsAssignments ==
    /\ pc \in {"generate_query", "reflection", "finalize_answer"}
    /\ pc' = "error"
    /\ research_loop_count' =
          IF pc = "reflection" THEN Some(Get(research_loop_count, 0) + 1)
          ELSE research_loop_count
    /\ UNCHANGED <<messages, query_list, web_research_result, sources_gathered,
                   is_sufficient, follow_up_queries, max_research_loops,
                   cfg_max_research_loops, tasks, order, wave, verdicts>>
    /\ UNCHANGED cacheVars

\* A provider call raises inside the node that is running (in a wave: inside
\* one of the branches that have not returned): nothing of that superstep is
\* merged and no further node runs.
ProviderError ==
    /\ pc \in {"generate_query", "web_research", "reflection", "finalize_answer"}
    /\ pc' = "error"
    /\ IF pc = "web_research"
       THEN \E i \in 1..Len(tasks) :
               /\ ~tasks[i].done
               /\ tasks' = [tasks EXCEPT ![i] = [@ EXCEPT !.failed = TRUE]]
       ELSE tasks' = tasks
    /\ UNCHANGED <<messages, query_list, web_research_result, sources_gathered,
                   research_loop_count, is_sufficient, follow_up_queries,
                   max_research_loops, cfg_max_research_loops, order, wave,
                   verdicts>>
    /\ UNCHANGED cacheVars

Next ==
    \/ \E ql \in QueryLists : GenerateQuery(ql)
    \/ \E i \in 1..MaxQueries, n \in ResultCounts : WebResearch(i, n)
    \/ \E s \in BOOLEAN, fq \in QueryLists :
           Reflection([is_sufficient |-> s, follow_up_queries |-> fq])
    \/ FinalizeAnswer("answer")
    \/ ProviderError

Spec == Init /\ [][Next]_vars

\* Runs with ceilings up to LoopsCeiling in which every search finds results.
LoopsCeiling == 5

LoopsInit ==
    /\ GraphInit({None} \cup {Some(n) : n \in 0..LoopsCeiling}, {MaxLoops})
    /\ CacheInit

LoopsNext ==
    \/ \E ql \in QueryLists : GenerateQuery(ql)
    \/ \E i \in 1..MaxQueries : WebResearch(i, MaxResults)
    \/ \E s \in BOOLEAN, fq \in QueryLists :
           Reflection([is_sufficient |-> s, follow_up_queries |-> fq])
    \/ FinalizeAnswer("answer")
    \/ ProviderError

LoopsSpec == LoopsInit /\ [][LoopsNext]_vars

\* The model-catalog endpoint under concurrent requests, no run in progress.
CacheSpecInit ==
    /\ GraphInit({None}, {MaxLoops})
    /\ CacheInit

CacheNext ==
    \/ \E c \in 1..MaxCalls : FetchStart(c)
    \/ \E c \in 1..MaxCalls, data \in UpstreamResponses : FetchSuccess(c, data)
    \/ \E c \in 1..MaxCalls : FetchFail(c)
    \/ \E c \in 1..MaxCalls : GetAvailableModels(c)
    \/ Tick

CacheSpec == CacheSpecInit /\ [][CacheNext]_vars

\* ---------------------------------------------------------------- properties

\* loopCount: research_loop_count, 0 while the key is absent.
LoopCount == Get(research_loop_count, 0)

\* maxLoops: the state override when it is not None, else the configured default.
MaxLoopsOfRun ==
    IF max_research_loops = None THEN cfg_max_research_loops
    ELSE max_research_loops[1]

\* finalize_answer has completed: its answer is in messages.
Finalized == Len(messages) > 1

IsPrefix(s, t) == Len(s) <= Len(t) /\ SubSeq(t, 1, Len(s)) = s

\* Indices of the wave's tasks in task order.
TaskOrder == [i \in 1..Len(tasks) |-> i]

\* Sum of the number of results the wave's searches returned, read off the
\* formatted block each branch produced (one line per result).
RECURSIVE ResultsReturned(_)
ResultsReturned(i) ==
    IF i = 0 THEN 0
    ELSE Len(tasks[i].writes.web_research_result[1]) + ResultsReturned(i - 1)

\* C1 as stated: in every reachable state research_loop_count is at most
\* maxLoops, for every value of maxLoops.
C1_LoopCountAtMostMaxLoops == LoopCount <= MaxLoopsOfRun

\* C1 amended: in every reachable state research_loop_count is at most
\* maxLoops when maxLoops >= 1, and at most 1 otherwise (the first reflection
\* always runs before the ceiling is looked at).
C1_LoopCountAtMostCeiling ==
    LoopCount <= (IF MaxLoopsOfRun >= 1 THEN MaxLoopsOfRun ELSE 1)

\* A run whose override is the largest ceiling and whose loop count reached it.
C1_Witness ==
    /\ max_research_loops = Some(MaxLoops)
    /\ cfg_max_research_loops = 1
    /\ LoopCount = MaxLoops
    /\ pc = "END"

\* C2: a run never ends without a provider error or a completed
\* finalize_answer (every run without a provider failure reaches
\* finalize_answer and then Done, for every query list, empty ones included).
C2_EndsOnlyAfterFinalize == pc = "END" => Finalized

\* C3: after every execution of reflection the route is finalize_answer iff
\* is_sufficient or research_loop_count (already incremented) >= maxLoops;
\* otherwise one web_research branch is dispatched per element of
\* follow_up_queries, in order.
C3_RouteAfterReflection ==
    [][(pc = "reflection" /\ pc' \notin {"reflection", "error"}) =>
          LET stop == is_sufficient'[1] \/ LoopCount' >= MaxLoopsOfRun
          IN /\ (pc' = "finalize_answer") <=> stop
             /\ ~stop =>
                   /\ Len(tasks') = Len(follow_up_queries')
                   /\ \A i \in 1..Len(tasks') :
                         /\ tasks'[i].arg = [search_query |-> follow_up_queries'[i]]
                         /\ ~tasks'[i].done
                   /\ pc' = IF follow_up_queries' = <<>> THEN "END" ELSE "web_research"
    ]_vars

\* The ceiling forced finalize_answer although reflection said insufficient.
C3_Witness ==
    /\ pc = "finalize_answer"
    /\ is_sufficient = Some(FALSE)
    /\ LoopCount >= MaxLoopsOfRun

\* C4: reflection starts only after all k branches of the wave have returned
\* and their deltas are merged, and it runs once per wave: while a wave is
\* running or has just been joined, the reflections completed so far are one
\* fewer than the waves dispatched, and when finalize_answer is next they are
\* equal.
C4_ReflectionAfterWholeWave ==
    /\ pc = "reflection" =>
          /\ Len(tasks) > 0
          /\ \A i \in 1..Len(tasks) : tasks[i].done
          /\ Len(order) = Len(tasks)
          /\ web_research_result =
                SubSeq(web_research_result, 1, wave.results)
                    \o Concat(tasks, TaskOrder, "web_research_result")
          /\ sources_gathered =
                SubSeq(sources_gathered, 1, wave.sources)
                    \o Concat(tasks, TaskOrder, "sources_gathered")
          /\ LoopCount = wave.n - 1
    /\ pc = "web_research" =>
          /\ LoopCount = wave.n - 1
          /\ Len(web_research_result) = wave.results
          /\ Len(sources_gathered) = wave.sources
    /\ pc = "finalize_answer" => LoopCount = wave.n

\* Reflection is about to run on a second wave whose branches returned out of
\* task order.
C4_Witness ==
    /\ pc = "reflection"
    /\ wave.n = 2
    /\ Len(tasks) = 2
    /\ order = <<2, 1>>

\* C5: after a wave of k branches that all succeeded, web_research_result is
\* its value at dispatch followed by exactly k entries, the i-th being the one
\* entry branch i returned, whatever the order in which the branches returned.
C5_ResultsGrowByWaveSize ==
    pc = "reflection" =>
        /\ Len(web_research_result) = wave.results + Len(tasks)
        /\ \A i \in 1..Len(tasks) :
              /\ Len(tasks[i].writes.web_research_result) = 1
              /\ web_research_result[wave.results + i] =
                    tasks[i].writes.web_research_result[1]

\* A later wave of two branches, returned in reverse order, one of them empty.
C5_Witness ==
    /\ pc = "reflection"
    /\ wave.results > 0
    /\ Len(tasks) = 2
    /\ order[1] = 2
    /\ tasks[1].writes.web_research_result[1] # <<>>
    /\ tasks[2].writes.web_research_result[1] = <<>>

C7_EmptyQueryListGoesToReflection ==
    [][(pc = "generate_query" /\ pc' \notin {"generate_query", "error"}
            /\ query_list' = <<>>)
          => (pc' = "reflection" /\ tasks' = <<>>)]_vars

\* C8: when finalize_answer runs, every numbered source in the prompt sent to
\* the answer model carries its 1-based position in sources_gathered.
C8_CitationIndexIsPosition ==
    pc = "finalize_answer" =>
        LET prompt == formatted_prompt(messages, web_research_result, sources_gathered)
        IN /\ \A b \in 1..Len(prompt.summaries) :
                 \A j \in 1..Len(prompt.summaries[b]) :
                     LET c == prompt.summaries[b][j]
                     IN /\ c.index \in 1..Len(sources_gathered)
                        /\ sources_gathered[c.index] = c.source
           /\ "source_list" \in DOMAIN prompt =>
                 \A i \in 1..Len(prompt.source_list) :
                     /\ prompt.source_list[i].index \in 1..Len(sources_gathered)
                     /\ sources_gathered[prompt.source_list[i].index]
                            = prompt.source_list[i].source

\* C9: across every transition the old web_research_result and the old
\* sources_gathered are prefixes of the new ones.
C9_AccumulatorsOnlyGrow ==
    [][/\ IsPrefix(web_research_result, web_research_result')
       /\ IsPrefix(sources_gathered, sources_gathered')]_vars

\* A finished run of two waves that gathered sources.
C9_Witness ==
    /\ pc = "END"
    /\ Finalized
    /\ wave.n = 2
    /\ Len(web_research_result) >= 3
    /\ Len(sources_gathered) > 0

\* C10: research_loop_count never decreases, changes only when reflection
\* completes, and each completed reflection adds exactly 1 to it (from 0 when
\* absent).
C10_LoopCountOnlyByReflection ==
    [][/\ LoopCount' >= LoopCount
       /\ pc # "reflection" => research_loop_count' = research_loop_count
       /\ (pc = "reflection" /\ pc' \notin {"reflection", "error"}) =>
             research_loop_count' = Some(LoopCount + 1)
       /\ (pc = "reflection" /\ pc' = "error") =>
             research_loop_count' = research_loop_count
    ]_vars

\* The second reflection of a run has completed.
C10_Witness == research_loop_count = Some(2) /\ pc = "finalize_answer"

\* The queries of the current wave's branches, in task order.
Dispatched == [i \in 1..Len(tasks) |-> tasks[i].arg.search_query]

C12_WavesInSequence ==
    [][wave'.n = wave.n + 1 =>
          /\ \A i \in 1..Len(tasks) : tasks[i].done
          /\ \A i \in 1..Len(tasks') : ~tasks'[i].done
          /\ Len(web_research_result') = wave'.results
          /\ pc = "reflection" =>
                /\ research_loop_count' = Some(wave.n)
                /\ Len(verdicts') = wave.n
                /\ is_sufficient' = Some(FALSE)
                /\ Len(tasks') = Len(follow_up_queries')
                /\ \A i \in 1..Len(tasks') :
                      tasks'[i].arg.search_query = follow_up_queries'[i]
    ]_vars

\* The second wave is half done: its first branch returned, its second not.
C12_Witness ==
    /\ pc = "web_research"
    /\ wave.n = 2
    /\ Len(tasks) = 2
    /\ tasks[1].done
    /\ ~tasks[2].done
    /\ research_loop_count = Some(1)

\* C13: when the provider call of generate_query, reflection or
\* finalize_answer fails, the run is in error, the run state is as it was
\* before the node started, and no node runs afterwards.
C13_FailedNodeMergesNothing ==
    [][/\ (pc \in {"generate_query", "reflection", "finalize_answer"}
              /\ pc' = "error") =>
             /\ research_loop_count' = research_loop_count
             /\ is_sufficient' = is_sufficient
             /\ follow_up_queries' = follow_up_queries
             /\ query_list' = query_list
             /\ messages' = messages
             /\ web_research_result' = web_research_result
             /\ sources_gathered' = sources_gathered
       /\ pc = "error" => UNCHANGED graphVars
    ]_vars

\* The first reflection of a run failed after a wave of two branches.
C13_Witness ==
    /\ pc = "error"
    /\ Len(tasks) = 2
    /\ \A i \in 1..Len(tasks) : tasks[i].done
    /\ research_loop_count = None
    /\ is_sufficient = None

\* C14: when a branch of a wave has failed, the run is in error and stays
\* there; nothing of the wave is merged, and reflection and finalize_answer
\* have not run for it.
C14_FailedBranchEndsRun ==
    (\E i \in 1..Len(tasks) : tasks[i].failed) =>
        /\ pc = "error"
        /\ Len(web_research_result) = wave.results
        /\ Len(sources_gathered) = wave.sources
        /\ LoopCount = wave.n - 1
        /\ Len(verdicts) = wave.n - 1
        /\ ~Finalized

\* The first branch of a wave failed after the second had returned results.
C14_Witness ==
    /\ pc = "error"
    /\ Len(tasks) = 2
    /\ tasks[1].failed
    /\ tasks[2].done
    /\ tasks[2].writes.sources_gathered # <<>>

\* The index of the first reflection that reported sufficient, capped by the
\* ceiling: the ceiling itself when none did up to it.
FirstSufficientOrCeiling(ceiling) ==
    LET hits == {i \in 1..Len(verdicts) : verdicts[i] /\ i <= ceiling}
    IN IF hits = {} THEN ceiling
       ELSE CHOOSE i \in hits : \A j \in hits : i <= j

\* C15: when finalize_answer starts, research_loop_count is the number of
\* waves dispatched and, for maxLoops >= 1, the smaller of maxLoops and the
\* index of the first reflection that reported sufficient.
C15_LoopCountAtFinalize ==
    pc = "finalize_answer" =>
        /\ LoopCount = wave.n
        /\ Len(verdicts) = wave.n
        /\ MaxLoopsOfRun >= 1 => LoopCount = FirstSufficientOrCeiling(MaxLoopsOfRun)

\* Insufficient, insufficient, sufficient under the largest ceiling: three waves.
C15_Witness ==
    /\ pc = "finalize_answer"
    /\ verdicts = <<FALSE, FALSE, TRUE>>
    /\ MaxLoopsOfRun = LoopsCeiling
    /\ wave.n = 3
    /\ LoopCount = 3

\* C17: finalize_answer adds exactly one message and changes nothing else; in
\* particular sources_gathered after it is what it was when it started.
C17_FinalizeChangesOnlyMessages ==
    [][(pc = "finalize_answer" /\ pc' = "END") =>
          /\ Len(messages') = Len(messages) + 1
          /\ sources_gathered' = sources_gathered
          /\ UNCHANGED <<query_list, web_research_result, research_loop_count,
                         is_sufficient, follow_up_queries, max_research_loops>>
    ]_vars

\* The list the current wave was fanned out over.
FannedOutList == IF wave.n = 1 THEN query_list ELSE follow_up_queries

\* C18: a fan-out over a list L has exactly Len(L) branches, the i-th with
\* L[i] alone as its input, repeated queries included; a branch that returned
\* wrote one block and the sources of its own query only, and a branch that
\* has not returned wrote nothing.
C18_OneBranchPerElement ==
    pc \in {"web_research", "reflection"} =>
        /\ Len(tasks) = Len(FannedOutList)
        /\ \A i \in 1..Len(tasks) :
              /\ tasks[i].arg = [search_query |-> FannedOutList[i]]
              /\ ~tasks[i].done => tasks[i].writes = NoWrites
              /\ tasks[i].done =>
                    /\ Len(tasks[i].writes.web_research_result) = 1
                    /\ \A j \in 1..Len(tasks[i].writes.sources_gathered) :
                          /\ tasks[i].writes.sources_gathered[j].title[1]
                                = FannedOutList[i]
                          /\ tasks[i].writes.web_research_result[1][j].source
                                = tasks[i].writes.sources_gathered[j]

\* A list with the same query twice gave two branches with different results.
C18_Witness ==
    /\ pc = "reflection"
    /\ wave.n = 1
    /\ Len(query_list) = 2
    /\ query_list[1] = query_list[2]
    /\ tasks[1].writes.sources_gathered = <<>>
    /\ tasks[2].writes.sources_gathered # <<>>

\* C19: a call whose upstream request or processing raises returns the cached
\* list if there is one, else the default list, and leaves model_cache as it
\* was; the default list is never cached.
C19_FailedFetchFallsBack ==
    /\ [](model_cache.data # Some(DefaultModels))
    /\ [][\A c \in 1..MaxCalls :
             (/\ calls[c].pc = "awaiting"
              /\ calls'[c] # calls[c]
              /\ calls'[c].outcome # "fetched") =>
                 /\ calls'[c].pc = "returned"
                 /\ calls'[c].result =
                       IF model_cache.data = None THEN DefaultModels
                       ELSE model_cache.data[1]
                 /\ model_cache' = model_cache
       ]_vars

\* A failed refresh returned stale cached data and the data stayed stale.
C19_Witness ==
    \E c \in 1..MaxCalls :
        /\ calls[c].outcome = "fallback"
        /\ model_cache.data # None
        /\ calls[c].result = model_cache.data[1]
        /\ now - model_cache.last_updated[1] >= CacheDuration

\* last_updated as a number: before every time when it is None.
LastUpdated(cache) ==
    IF cache.last_updated = None THEN -1 ELSE cache.last_updated[1]

\* C20: under every interleaving of calls, data is None iff last_updated is
\* None and last_updated never decreases; a call that starts on a populated
\* cache younger than cache_duration returns the cached list at once, without
\* an upstream request and without touching the cache; a successful refresh
\* sets data and last_updated together.
C20_CacheConsistent ==
    /\ []((model_cache.data = None) <=> (model_cache.last_updated = None))
    /\ [][/\ LastUpdated(model_cache') >= LastUpdated(model_cache)
          /\ \A c \in 1..MaxCalls :
                /\ (/\ calls[c].pc = "idle"
                    /\ calls'[c].pc # "idle"
                    /\ model_cache.data # None
                    /\ now - LastUpdated(model_cache) < CacheDuration) =>
                      /\ calls'[c].pc = "returned"
                      /\ calls'[c].result = model_cache.data[1]
                      /\ model_cache' = model_cache
                /\ (calls[c].pc = "awaiting" /\ calls'[c].outcome = "fetched") =>
                      /\ model_cache'.data = Some(calls'[c].result)
                      /\ model_cache'.last_updated = Some(now)
       ]_vars

\* Two calls awaited upstream together; the one answered later replaced what
\* the other had cached, and the cache is still fresh.
C20_Witness ==
    /\ calls[1].outcome = "fetched"
    /\ calls[2].outcome = "fetched"
    /\ calls[1].result # calls[2].result
    /\ model_cache.data = Some(calls[2].result)
    /\ now > LastUpdated(model_cache)
    /\ now - LastUpdated(model_cache) < CacheDuration

====
